---- MODULE Spec2Model ----
(***************************************************************************)
(* Model of the spare-parts inventory server (backend/server.js): the      *)
(* Excel loader, the field normaliser, the stock classifier and the HTTP   *)
(* handlers that read or replace the in-memory snapshot.                   *)
(*                                                                         *)
(* JavaScript values are tagged records: Undef, Num(c) and Str(s).  A      *)
(* number is held in hundredths (Num(250) is 2.5), so that the integer     *)
(* and the floating-point parsers can both be computed exactly on the      *)
(* values used here (at most two decimals).                                *)
(***************************************************************************)
EXTENDS Integers, Sequences, FiniteSets, TLC

VARIABLES file, sparePartsData, lastSyncTime, clock, response, probe

vars == <<file, sparePartsData, lastSyncTime, clock, response, probe>>

-----------------------------------------------------------------------------
(* JavaScript values                                                       *)

Undef == [t |-> "undef"]

Num(c) == [t |-> "num", v |-> c]

Str(s) == [t |-> "str", s |-> s]

\* ToBoolean, as used by the || operator
Truthy(x) ==
    CASE x.t = "undef" -> FALSE
      [] x.t = "num"   -> x.v # 0
      [] x.t = "str"   -> x.s # ""

\* a ?? b in place of a || b: only an absent value takes the default
Or_Nullish(x, d) == IF x.t = "undef" THEN d ELSE x

\* a || b
Or(x, d) == IF Truthy(x) THEN x ELSE d

DigitChars == <<"0", "1", "2", "3", "4", "5", "6", "7", "8", "9">>

DigitSet == {DigitChars[i] : i \in 1..10}

DigitValues == [c \in DigitSet |-> (CHOOSE i \in 1..10 : DigitChars[i] = c) - 1]

IsDigit(c) == c \in DigitSet

DigitVal(c) == DigitValues[c]

RECURSIVE NatToStr(_)
NatToStr(n) ==
    IF n < 10 THEN DigitChars[n + 1]
    ELSE NatToStr(n \div 10) \o DigitChars[(n % 10) + 1]

\* Number::toString for a number held in hundredths
NumToStr(c) ==
    LET a    == IF c < 0 THEN -c ELSE c
        frac == a % 100
        fs   == IF frac = 0 THEN ""
                ELSE IF frac % 10 = 0 THEN "." \o DigitChars[(frac \div 10) + 1]
                ELSE "." \o DigitChars[(frac \div 10) + 1] \o DigitChars[(frac % 10) + 1]
    IN  (IF c < 0 THEN "-" ELSE "") \o NatToStr(a \div 100) \o fs

\* ToString, as applied by parseInt, parseFloat and template literals
ToStr(x) ==
    CASE x.t = "undef" -> "undefined"
      [] x.t = "num"   -> NumToStr(x.v)
      [] x.t = "str"   -> x.s

RECURSIVE TrimLeft(_)
TrimLeft(s) ==
    IF s # "" /\ Head(s) = " " THEN TrimLeft(Tail(s)) ELSE s

RECURSIVE DigitsPrefixLen(_)
DigitsPrefixLen(s) ==
    IF s # "" /\ IsDigit(Head(s)) THEN 1 + DigitsPrefixLen(Tail(s)) ELSE 0

RECURSIVE DigitsValue(_, _)
DigitsValue(s, acc) ==
    IF s = "" THEN acc ELSE DigitsValue(Tail(s), acc * 10 + DigitVal(Head(s)))

NaN == [nan |-> TRUE, n |-> 0]

Number(n) == [nan |-> FALSE, n |-> n]

CharAt(s, i) == SubSeq(s, i, i)

IsNegative(t) == t # "" /\ Head(t) = "-"

StripSign(t) == IF t # "" /\ Head(t) \in {"+", "-"} THEN Tail(t) ELSE t

Signed(negative, m) == IF negative THEN -m ELSE m

LeadingDigits(u) == SubSeq(u, 1, DigitsPrefixLen(u))

AfterDigits(u) == SubSeq(u, DigitsPrefixLen(u) + 1, Len(u))

\* the digits that follow a decimal point at the head of rest
FractionDigits(rest) ==
    IF rest # "" /\ Head(rest) = "." THEN LeadingDigits(Tail(rest)) ELSE ""

\* the first two decimals, in hundredths
Hundredths(digits) ==
    (IF Len(digits) >= 1 THEN 10 * DigitVal(CharAt(digits, 1)) ELSE 0)
      + (IF Len(digits) >= 2 THEN DigitVal(CharAt(digits, 2)) ELSE 0)

IntegerOf(negative, digits) ==
    IF digits = "" THEN NaN ELSE Number(Signed(negative, DigitsValue(digits, 0)))

DecimalOf(negative, digits, decimals) ==
    IF digits = "" /\ decimals = "" THEN NaN
    ELSE Number(Signed(negative, DigitsValue(digits, 0) * 100 + Hundredths(decimals)))

\* parseInt on a string without leading white space: sign, then digits
ParseIntStr(t) == IntegerOf(IsNegative(t), LeadingDigits(StripSign(t)))

\* parseFloat on a string without leading white space: sign, digits, and
\* decimals after a point
ParseFloatStr(t) ==
    DecimalOf(IsNegative(t), LeadingDigits(StripSign(t)),
              FractionDigits(AfterDigits(StripSign(t))))

\* parseInt(x): the result in units
parseInt(x) == ParseIntStr(TrimLeft(ToStr(x)))

\* parseFloat(x): the result in hundredths
parseFloat(x) == ParseFloatStr(TrimLeft(ToStr(x)))

\* p || 0 for a parsed number p
OrZero(p) == IF p.nan \/ p.n = 0 THEN 0 ELSE p.n

-----------------------------------------------------------------------------
(* Stock classifier and field normaliser                                   *)

\* the 1.5 boundary compared with < in place of <=
getStockLevel_Strict(currentStock, minRequired) ==
    IF currentStock = 0 THEN "OUT_OF_STOCK"
    ELSE IF currentStock <= minRequired THEN "LOW_STOCK"
    ELSE IF 2 * currentStock < 3 * minRequired THEN "MEDIUM_STOCK"
    ELSE "HIGH_STOCK"

\* minRequired * 1.5 is compared in real arithmetic: cs <= 1.5 m iff 2 cs <= 3 m
getStockLevel(currentStock, minRequired) ==
    IF currentStock = 0 THEN "OUT_OF_STOCK"
    ELSE IF currentStock <= minRequired THEN "LOW_STOCK"
    ELSE IF 2 * currentStock <= 3 * minRequired THEN "MEDIUM_STOCK"
    ELSE "HIGH_STOCK"

\* new Date().toISOString().split('T')[0] at instant now
Today(now) == Str("2024-01-0" \o DigitChars[now + 1])

\* totalValue from parseInt(item.Unit_Cost) in place of parseFloat
normalize_IntCost(item, token, now) ==
    [ id                |-> Or(item.Part_Code,
                               Str(ToStr(item.Equipment_Category) \o "-" \o token)),
      equipmentCategory |-> Or(item.Equipment_Category, Str("UNKNOWN")),
      partName          |-> Or(item.Part_Name, Str("Unknown Part")),
      partCode          |-> Or(item.Part_Code, Str("N/A")),
      currentStock      |-> OrZero(parseInt(item.Current_Stock)),
      minRequired       |-> OrZero(parseInt(item.Minimum_Required)),
      maxThreshold      |-> OrZero(parseInt(item.Maximum_Threshold)),
      inProcess         |-> OrZero(parseInt(item.In_Process)),
      unitCost          |-> OrZero(parseFloat(item.Unit_Cost)),
      supplier          |-> Or(item.Supplier, Str("Unknown")),
      lastUpdated       |-> Or(item.Last_Updated, Today(now)),
      status            |-> Or(item.Status, Str("Active")),
      stockLevel        |-> getStockLevel(OrZero(parseInt(item.Current_Stock)),
                                          OrZero(parseInt(item.Minimum_Required))),
      totalValue        |-> OrZero(parseInt(item.Current_Stock))
                              * (OrZero(parseInt(item.Unit_Cost)) * 100) ]

\* lastUpdated stamped with the day of the load whatever the sheet says
normalize_StampToday(item, token, now) ==
    [ id                |-> Or(item.Part_Code,
                               Str(ToStr(item.Equipment_Category) \o "-" \o token)),
      equipmentCategory |-> Or(item.Equipment_Category, Str("UNKNOWN")),
      partName          |-> Or(item.Part_Name, Str("Unknown Part")),
      partCode          |-> Or(item.Part_Code, Str("N/A")),
      currentStock      |-> OrZero(parseInt(item.Current_Stock)),
      minRequired       |-> OrZero(parseInt(item.Minimum_Required)),
      maxThreshold      |-> OrZero(parseInt(item.Maximum_Threshold)),
      inProcess         |-> OrZero(parseInt(item.In_Process)),
      unitCost          |-> OrZero(parseFloat(item.Unit_Cost)),
      supplier          |-> Or(item.Supplier, Str("Unknown")),
      lastUpdated       |-> Today(now),
      status            |-> Or(item.Status, Str("Active")),
      stockLevel        |-> getStockLevel(OrZero(parseInt(item.Current_Stock)),
                                          OrZero(parseInt(item.Minimum_Required))),
      totalValue        |-> OrZero(parseInt(item.Current_Stock))
                              * OrZero(parseFloat(item.Unit_Cost)) ]

\* Math.random().toString(36).substr(2, 9) is the token
normalize(item, token, now) ==
    [ id                |-> Or(item.Part_Code,
                               Str(ToStr(item.Equipment_Category) \o "-" \o token)),
      equipmentCategory |-> Or(item.Equipment_Category, Str("UNKNOWN")),
      partName          |-> Or(item.Part_Name, Str("Unknown Part")),
      partCode          |-> Or(item.Part_Code, Str("N/A")),
      currentStock      |-> OrZero(parseInt(item.Current_Stock)),
      minRequired       |-> OrZero(parseInt(item.Minimum_Required)),
      maxThreshold      |-> OrZero(parseInt(item.Maximum_Threshold)),
      inProcess         |-> OrZero(parseInt(item.In_Process)),
      unitCost          |-> OrZero(parseFloat(item.Unit_Cost)),
      supplier          |-> Or(item.Supplier, Str("Unknown")),
      lastUpdated       |-> Or(item.Last_Updated, Today(now)),
      status            |-> Or(item.Status, Str("Active")),
      stockLevel        |-> getStockLevel(OrZero(parseInt(item.Current_Stock)),
                                          OrZero(parseInt(item.Minimum_Required))),
      totalValue        |-> OrZero(parseInt(item.Current_Stock))
                              * OrZero(parseFloat(item.Unit_Cost)) ]

RECURSIVE WithPartCode(_)
WithPartCode(rawData) ==
    IF rawData = <<>> THEN <<>>
    ELSE (IF Truthy(Head(rawData).Part_Code) THEN <<Head(rawData)>> ELSE <<>>)
           \o WithPartCode(Tail(rawData))

\* rawData.filter(item => item.Part_Code).map(...): rows without a code are skipped
processSparePartsData_SkipBlank(rawData, tokens, now) ==
    [i \in 1..Len(WithPartCode(rawData)) |->
       normalize(WithPartCode(rawData)[i], tokens[i], now)]

\* rawData.map(item => ...): tokens[i] is the random token drawn for row i
processSparePartsData(rawData, tokens, now) ==
    [i \in 1..Len(rawData) |-> normalize(rawData[i], tokens[i], now)]

-----------------------------------------------------------------------------
(* Dataset loader                                                          *)

\* The on-disk source data/Spare_Parts_Inventory.xlsx: absent, unreadable
\* (xlsx.readFile throws) or a workbook, a list of named sheets in
\* SheetNames order, each sheet given by the rows sheet_to_json returns
Absent == [kind |-> "absent"]

Corrupt == [kind |-> "corrupt"]

Workbook(sheets) == [kind |-> "workbook", sheets |-> sheets]

Sheet(name, rows) == [name |-> name, rows |-> rows]

HasSheet(wb, name) == \E i \in 1..Len(wb.sheets) : wb.sheets[i].name = name

\* workbook.Sheets[name]
SheetRows(wb, name) ==
    wb.sheets[CHOOSE i \in 1..Len(wb.sheets) : wb.sheets[i].name = name].rows

\* fs.existsSync(filePath)
existsSync(f) == f.kind # "absent"

\* xlsx.readFile(filePath): the workbook, or an exception
xlsxReadFile(f) ==
    IF f.kind = "corrupt" THEN [thrown |-> TRUE, workbook |-> Workbook(<<>>)]
    ELSE [thrown |-> FALSE, workbook |-> f]

Returned(data) == [thrown |-> FALSE, data |-> data]

Thrown == [thrown |-> TRUE, data |-> <<>>]

\* readExcelData() without its try/catch
readExcelData_NoCatch(f, tokens, now) ==
    IF ~existsSync(f) THEN Returned(<<>>)
    ELSE LET r == xlsxReadFile(f) IN
         IF r.thrown THEN Thrown
         ELSE IF ~HasSheet(r.workbook, "Spare_Parts_Inventory")
         THEN IF Len(r.workbook.sheets) = 0 THEN Returned(<<>>)
              ELSE Returned(processSparePartsData(r.workbook.sheets[1].rows, tokens, now))
         ELSE Returned(processSparePartsData(
                           SheetRows(r.workbook, "Spare_Parts_Inventory"), tokens, now))

\* readExcelData() that always takes the first sheet
readExcelData_FirstSheet(f, tokens, now) ==
    IF ~existsSync(f) THEN Returned(<<>>)
    ELSE LET r == xlsxReadFile(f) IN
         IF r.thrown THEN Returned(<<>>)
         ELSE IF Len(r.workbook.sheets) = 0 THEN Returned(<<>>)
         ELSE Returned(processSparePartsData(r.workbook.sheets[1].rows, tokens, now))

\* readExcelData(): the array returned, or the exception that escapes it
readExcelData(f, tokens, now) ==
    IF ~existsSync(f) THEN Returned(<<>>)
    ELSE LET r == xlsxReadFile(f) IN
         IF r.thrown THEN Returned(<<>>)
         ELSE IF ~HasSheet(r.workbook, "Spare_Parts_Inventory")
         THEN IF Len(r.workbook.sheets) = 0 THEN Returned(<<>>)
              ELSE Returned(processSparePartsData(r.workbook.sheets[1].rows, tokens, now))
         ELSE Returned(processSparePartsData(
                           SheetRows(r.workbook, "Spare_Parts_Inventory"), tokens, now))

-----------------------------------------------------------------------------
(* Sources the server is run against                                       *)

EmptyRow ==
    [ Part_Code |-> Undef, Equipment_Category |-> Undef, Part_Name |-> Undef,
      Current_Stock |-> Undef, Minimum_Required |-> Undef,
      Maximum_Threshold |-> Undef, In_Process |-> Undef, Unit_Cost |-> Undef,
      Supplier |-> Undef, Last_Updated |-> Undef, Status |-> Undef ]

RowA1 ==
    [ Part_Code |-> Str("A1"), Equipment_Category |-> Str("PCT"),
      Part_Name |-> Str("Main Pump Assembly"),
      Current_Stock |-> Num(500), Minimum_Required |-> Num(1000),
      Maximum_Threshold |-> Num(2000), In_Process |-> Num(100),
      Unit_Cost |-> Num(200), Supplier |-> Str("Acme"),
      Last_Updated |-> Str("2024-01-01"), Status |-> Str("Active") ]

RowNoCode ==
    [ EmptyRow EXCEPT !.Part_Code = Str(""), !.Equipment_Category = Str("PCT"),
                      !.Part_Name = Str("Valve"),
                      !.Current_Stock = Num(0), !.Minimum_Required = Num(100),
                      !.Unit_Cost = Num(500), !.Last_Updated = Str("2024-01-03") ]

RowB2 ==
    [ EmptyRow EXCEPT !.Part_Code = Str("B2"),
                      !.Equipment_Category = Str("COMMON_PARTS"),
                      !.Part_Name = Str("pump seal"),
                      !.Current_Stock = Num(3000), !.Minimum_Required = Num(500),
                      !.In_Process = Num(200),
                      !.Unit_Cost = Num(100), !.Supplier = Str("acme"),
                      !.Last_Updated = Str("2024-01-02"),
                      !.Status = Str("Inactive") ]

\* shares its part code with RowA1
RowDup ==
    [ EmptyRow EXCEPT !.Part_Code = Str("A1"),
                      !.Equipment_Category = Str("DAMP_HEAT"),
                      !.Part_Name = Str("Gasket"),
                      !.Current_Stock = Num(1500), !.Minimum_Required = Num(1000),
                      !.Unit_Cost = Num(250), !.Last_Updated = Str("2024-01-02") ]

\* negative numeric cells
RowNeg ==
    [ EmptyRow EXCEPT !.Part_Code = Str("N1"), !.Equipment_Category = Str("PCT"),
                      !.Part_Name = Str("Fuse"),
                      !.Current_Stock = Num(-200), !.Minimum_Required = Num(-100),
                      !.Maximum_Threshold = Num(-300), !.In_Process = Num(-100),
                      !.Unit_Cost = Num(-150), !.Last_Updated = Str("2024-01-01") ]

\* a numeric part code, numbers typed as text, an unparseable date
RowText ==
    [ EmptyRow EXCEPT !.Part_Code = Num(700), !.Part_Name = Str("Relay"),
                      !.Current_Stock = Str("7"), !.Minimum_Required = Str("12abc"),
                      !.Maximum_Threshold = Str("x"), !.In_Process = Num(250),
                      !.Unit_Cost = Str("2.5"), !.Last_Updated = Str("n/a") ]

FileScenario ==
    Workbook(<<Sheet("Spare_Parts_Inventory", <<RowA1, RowNoCode, RowB2>>)>>)

\* the named sheet is not the first one; its rows share a part code
FileSecond ==
    Workbook(<<Sheet("Sheet1", <<EmptyRow>>),
               Sheet("Spare_Parts_Inventory", <<RowA1, RowDup>>)>>)

\* no sheet has the name; two rows of the first one have no part code
FileFallback ==
    Workbook(<<Sheet("Data", <<RowNoCode, RowNoCode>>), Sheet("Other", <<RowB2>>)>>)

FileMessy ==
    Workbook(<<Sheet("Spare_Parts_Inventory", <<RowText, RowNeg, EmptyRow>>)>>)

FileNoSheets == Workbook(<<>>)

\* the sources, by name; the variable file holds the name of the one on disk
Content ==
    [ absent |-> Absent, corrupt |-> Corrupt, nosheets |-> FileNoSheets,
      scenario |-> FileScenario, second |-> FileSecond,
      fallback |-> FileFallback, messy |-> FileMessy ]

Files == DOMAIN Content

\* the most rows a sheet of Files has
MaxRows == 3

\* how many values the random token takes
NumTokens == 2

Tokens == { "k" \o NatToStr(i) : i \in 1..NumTokens }

\* the last instant of the clock
MaxClock == 2

\* the draws of Math.random() of one load of f: a token for every row, of
\* which normalize uses those of the rows without a part code; the rows
\* that have one in every sheet get the first token
TokenDraws(f) ==
    { tokens \in [1..MaxRows -> Tokens] :
        \A i \in 1..MaxRows :
          (f.kind = "workbook" /\ \E k \in 1..Len(f.sheets) :
              /\ i <= Len(f.sheets[k].rows)
              /\ ~Truthy(f.sheets[k].rows[i].Part_Code))
          \/ tokens[i] = "k1" }

\* readExcelData() on each source, for each draw of tokens and each instant
\* (@@ makes TLC build the table once instead of at every use)
Loads ==
    [ name \in Files, tokens \in [1..MaxRows -> Tokens], now \in 1..MaxClock |->
        readExcelData(Content[name], tokens, now) ] @@ <<>>

Draws == [name \in Files |-> TokenDraws(Content[name])]

-----------------------------------------------------------------------------
(* The server                                                              *)

NoProbe == [op |-> "none"]

\* sparePartsData = readExcelData(); lastSyncTime = new Date().toISOString()
Init ==
    /\ file \in Files
    /\ clock = 1
    /\ \E tokens \in Draws[file] :
         LET r == Loads[file, tokens, clock] IN
         /\ sparePartsData = r.data
         /\ response = [op |-> "start", status |-> IF r.thrown THEN 500 ELSE 200,
                         source |-> file]
    /\ lastSyncTime = clock
    /\ probe = NoProbe

\* time passes between two requests
Tick ==
    /\ clock < MaxClock
    /\ clock' = clock + 1
    /\ UNCHANGED <<file, sparePartsData, lastSyncTime, response, probe>>

\* the source file is replaced, removed or damaged outside the server
FileChange ==
    /\ \E f \in Files : f # file /\ file' = f
    /\ UNCHANGED <<sparePartsData, lastSyncTime, clock, response, probe>>

\* GET /api/health
Health ==
    /\ response' = [op |-> "health", status |-> 200,
                    dataCount |-> Len(sparePartsData), lastSync |-> lastSyncTime]
    /\ UNCHANGED <<file, sparePartsData, lastSyncTime, clock, probe>>

\* a reload that adds the new records to the old ones
Reload_Merge(op, f) ==
    \E tokens \in Draws[f] :
      LET newData == Loads[f, tokens, clock] IN
      /\ sparePartsData' = sparePartsData \o newData.data
      /\ lastSyncTime' = clock
      /\ response' = [op |-> op, status |-> 200, source |-> f,
                      totalParts |-> Len(sparePartsData) + Len(newData.data),
                      syncTime |-> clock]

\* a reload that answers with the size read before the new array is assigned
Reload_StaleCount(op, f) ==
    \E tokens \in Draws[f] :
      LET newData == Loads[f, tokens, clock] IN
      /\ sparePartsData' = newData.data
      /\ lastSyncTime' = clock
      /\ response' = [op |-> op, status |-> 200, source |-> f,
                      totalParts |-> Len(sparePartsData), syncTime |-> clock]

\* the body shared by the two reload handlers, run on the file f; the
\* response records in source which file was read
Reload(op, f) ==
    \E tokens \in Draws[f] :
      LET newData == Loads[f, tokens, clock] IN
      IF newData.thrown
      THEN /\ response' = [op |-> op, status |-> 500, source |-> f]
           /\ UNCHANGED <<sparePartsData, lastSyncTime>>
      ELSE /\ sparePartsData' = newData.data
           /\ lastSyncTime' = clock
           /\ response' = [op |-> op, status |-> 200, source |-> f,
                           totalParts |-> Len(newData.data), syncTime |-> clock]

\* POST /api/refresh-data
RefreshData ==
    /\ Reload("refresh", file)
    /\ UNCHANGED <<file, clock, probe>>

\* the loader run before req.file is looked at: the request is rejected but
\* the snapshot is that of the file now on the disk
SyncExcelNoFile_Reloads ==
    /\ \E tokens \in Draws[file] :
         /\ sparePartsData' = Loads[file, tokens, clock].data
         /\ lastSyncTime' = clock
    /\ response' = [op |-> "sync", status |-> 400]
    /\ UNCHANGED <<file, clock, probe>>

\* POST /api/sync-excel without a file
SyncExcelNoFile ==
    /\ response' = [op |-> "sync", status |-> 400]
    /\ UNCHANGED <<file, sparePartsData, lastSyncTime, clock, probe>>

\* POST /api/sync-excel: multer stores the uploaded file under the fixed
\* name, then the handler reloads
SyncExcel ==
    /\ \E upload \in Files \ {"absent"} :
         /\ file' = upload
         /\ Reload("sync", upload)
    /\ UNCHANGED <<clock, probe>>

-----------------------------------------------------------------------------
(* Strings and comparisons                                                 *)

UpperChars == "ABCDEFGHIJKLMNOPQRSTUVWXYZ"

LowerChars == "abcdefghijklmnopqrstuvwxyz"

\* the characters of the model in code-unit order
CodeChars == " -./0123456789" \o UpperChars \o "_" \o LowerChars

CharCodes ==
    [c \in {CharAt(CodeChars, i) : i \in 1..Len(CodeChars)} |->
       CHOOSE i \in 1..Len(CodeChars) : CharAt(CodeChars, i) = c]

CharCode(c) == CharCodes[c]

LowerOf ==
    [c \in {CharAt(UpperChars, i) : i \in 1..26} |->
       CharAt(LowerChars, CHOOSE i \in 1..26 : CharAt(UpperChars, i) = c)]

LowerChar(c) == IF c \in DOMAIN LowerOf THEN LowerOf[c] ELSE c

\* String.prototype.toLowerCase
RECURSIVE toLowerCase(_)
toLowerCase(s) ==
    IF s = "" THEN "" ELSE LowerChar(Head(s)) \o toLowerCase(Tail(s))

\* String.prototype.includes
includes(s, sub) ==
    \E i \in 0..(Len(s) - Len(sub)) : SubSeq(s, i + 1, i + Len(sub)) = sub

\* s < t on two strings: code units, left to right
RECURSIVE StrLess(_, _)
StrLess(s, t) ==
    IF t = "" THEN FALSE
    ELSE IF s = "" THEN TRUE
    ELSE IF Head(s) = Head(t) THEN StrLess(Tail(s), Tail(t))
    ELSE CharCode(Head(s)) < CharCode(Head(t))

AllDigits(s) == \A i \in 1..Len(s) : IsDigit(SubSeq(s, i, i))

RECURSIVE TrimRight(_)
TrimRight(s) ==
    IF s # "" /\ CharAt(s, Len(s)) = " " THEN TrimRight(SubSeq(s, 1, Len(s) - 1)) ELSE s

\* digits [. digits] or . digits, given the length k of the leading digits
\* and what follows them
IsLiteralTail(k, rest) ==
    IF rest = "" THEN k > 0
    ELSE Head(rest) = "." /\ AllDigits(Tail(rest)) /\ (k > 0 \/ Len(rest) > 1)

\* StringToNumber on a trimmed string: it must be a decimal literal
\* throughout
StrToNumber(t) ==
    IF t = "" THEN Number(0)
    ELSE IF IsLiteralTail(DigitsPrefixLen(StripSign(t)), AfterDigits(StripSign(t)))
    THEN ParseFloatStr(t)
    ELSE NaN

\* ToNumber, in hundredths
ToNumber(x) ==
    CASE x.t = "undef" -> NaN
      [] x.t = "num"   -> Number(x.v)
      [] x.t = "str"   -> StrToNumber(TrimRight(TrimLeft(x.s)))

NumLess(nx, ny) == ~nx.nan /\ ~ny.nan /\ nx.n < ny.n

\* x < y
Less(x, y) ==
    IF x.t = "str" /\ y.t = "str" THEN StrLess(x.s, y.s)
    ELSE NumLess(ToNumber(x), ToNumber(y))

-----------------------------------------------------------------------------
(* Dates and Array.prototype.sort                                          *)

\* days from 1970-01-01 to the civil date y-m-d
DaysFromCivil(y, m, d) ==
    LET yy  == IF m <= 2 THEN y - 1 ELSE y
        era == yy \div 400
        yoe == yy - era * 400
        mp  == IF m > 2 THEN m - 3 ELSE m + 9
        doy == (153 * mp + 2) \div 5 + d - 1
        doe == yoe * 365 + yoe \div 4 - yoe \div 100 + doy
    IN  era * 146097 + doe - 719468

MsPerDay == 86400000

\* a time value: whole days since 1970-01-01 and milliseconds into the day
TimeValue(day, ms) == [nan |-> FALSE, day |-> day, ms |-> ms]

InvalidDate == [nan |-> TRUE, day |-> 0, ms |-> 0]

\* new Date(x).getTime(): a number is a time value in milliseconds, a
\* string is parsed as the ISO calendar date YYYY-MM-DD, anything else
\* is an Invalid Date
DateValue(x) ==
    CASE x.t = "undef" -> InvalidDate
      [] x.t = "num"   ->
           LET ms == IF x.v >= 0 THEN x.v \div 100 ELSE -((-x.v) \div 100)
           IN  TimeValue(ms \div MsPerDay, ms % MsPerDay)
      [] x.t = "str"   ->
           LET s == x.s IN
           IF /\ Len(s) = 10
              /\ AllDigits(SubSeq(s, 1, 4)) /\ SubSeq(s, 5, 5) = "-"
              /\ AllDigits(SubSeq(s, 6, 7)) /\ SubSeq(s, 8, 8) = "-"
              /\ AllDigits(SubSeq(s, 9, 10))
              /\ DigitsValue(SubSeq(s, 6, 7), 0) \in 1..12
              /\ DigitsValue(SubSeq(s, 9, 10), 0) \in 1..31
           THEN TimeValue(DaysFromCivil(DigitsValue(SubSeq(s, 1, 4), 0),
                                        DigitsValue(SubSeq(s, 6, 7), 0),
                                        DigitsValue(SubSeq(s, 9, 10), 0)), 0)
           ELSE InvalidDate

Sign(n) == IF n < 0 THEN -1 ELSE IF n > 0 THEN 1 ELSE 0

\* db - da as the sort reads it: its sign, and 0 when it is NaN
TimeDifference(db, da) ==
    IF da.nan \/ db.nan THEN 0
    ELSE IF db.day # da.day THEN Sign(db.day - da.day)
    ELSE Sign(db.ms - da.ms)

\* (a, b) => new Date(b.lastUpdated) - new Date(a.lastUpdated)
CompareRecent(a, b) ==
    TimeDifference(DateValue(b.lastUpdated), DateValue(a.lastUpdated))

StringFields ==
    {"id", "equipmentCategory", "partName", "partCode", "supplier",
     "lastUpdated", "status"}

UnitFields == {"currentStock", "minRequired", "maxThreshold", "inProcess"}

\* item[name] as a JavaScript value
Field(item, name) ==
    IF name \in StringFields THEN item[name]
    ELSE IF name \in UnitFields THEN Num(item[name] * 100)
    ELSE IF name \in {"unitCost", "totalValue"} THEN Num(item[name])
    ELSE IF name = "stockLevel" THEN Str(item.stockLevel)
    ELSE Undef

\* the comparison function of the query: sortOrder is 1 or -1
CompareField(sortField, sortOrder, a, b) ==
    IF Less(Field(a, sortField), Field(b, sortField)) THEN -1 * sortOrder
    ELSE IF Less(Field(b, sortField), Field(a, sortField)) THEN 1 * sortOrder
    ELSE 0

\* sort() without a comparison function orders by ToString
CompareDefault(a, b) ==
    IF StrLess(ToStr(a), ToStr(b)) THEN -1
    ELSE IF StrLess(ToStr(b), ToStr(a)) THEN 1
    ELSE 0

\* aVal and bVal after the typeof test: when aVal is a string both are
\* lower-cased, and bVal.toLowerCase() throws unless bVal is a string too
LowerThrows(aVal, bVal) == aVal.t = "str" /\ bVal.t # "str"

Lowered(aVal, other) ==
    IF other.t = "str" /\ aVal.t = "str" THEN Str(toLowerCase(aVal.s)) ELSE aVal

CompareValues(aVal, bVal, sortOrder) ==
    IF Less(aVal, bVal) THEN -1 * sortOrder
    ELSE IF Less(bVal, aVal) THEN 1 * sortOrder
    ELSE 0

\* the comparison function of the client-side sort, where it returns
CompareClient(sortField, sortOrder, a, b) ==
    CompareValues(Lowered(Field(a, sortField), Field(a, sortField)),
                  Lowered(Field(b, sortField), Field(a, sortField)), sortOrder)

\* the comparison functions handed to sort, by name
Compare(cmp, a, b) ==
    CASE cmp.by = "recent"  -> CompareRecent(a, b)
      [] cmp.by = "field"   -> CompareField(cmp.field, cmp.order, a, b)
      [] cmp.by = "default" -> CompareDefault(a, b)
      [] cmp.by = "client"  -> CompareClient(cmp.field, cmp.order, a, b)

Reverse(s) == [i \in 1..Len(s) |-> s[Len(s) + 1 - i]]

\* whether an element whose comparison with its predecessor is order ends
\* the run
EndsRun(descending, order) == IF descending THEN order >= 0 ELSE order < 0

\* V8 CountAndMakeRun: the length of the run that starts the array
RECURSIVE RunEnd(_, _, _, _)
RunEnd(s, cmp, descending, i) ==
    IF i > Len(s) THEN i - 1
    ELSE IF EndsRun(descending, Compare(cmp, s[i], s[i - 1])) THEN i - 1
    ELSE RunEnd(s, cmp, descending, i + 1)

\* V8 BinaryInsertionSort: the place of the pivot in the sorted s[1..right-1]
RECURSIVE InsertionPoint(_, _, _, _, _)
InsertionPoint(s, cmp, pivot, left, right) ==
    IF left >= right THEN left
    ELSE LET mid == left + (right - left) \div 2 IN
         IF Compare(cmp, pivot, s[mid]) < 0
         THEN InsertionPoint(s, cmp, pivot, left, mid)
         ELSE InsertionPoint(s, cmp, pivot, mid + 1, right)

\* s with the element at from moved down to to
MoveTo(s, from, to) ==
    SubSeq(s, 1, to - 1) \o <<s[from]>> \o SubSeq(s, to, from - 1)
      \o SubSeq(s, from + 1, Len(s))

RECURSIVE BinaryInsertionSort(_, _, _)
BinaryInsertionSort(s, cmp, start) ==
    IF start > Len(s) THEN s
    ELSE BinaryInsertionSort(
           MoveTo(s, start, InsertionPoint(s, cmp, s[start], 1, start)),
           cmp, start + 1)

\* the run of length run at the head of s made ascending, the rest inserted
SortFromRun(s, cmp, descending, run) ==
    BinaryInsertionSort(
      IF descending THEN Reverse(SubSeq(s, 1, run)) \o SubSeq(s, run + 1, Len(s))
      ELSE s,
      cmp, run + 1)

SortRun(s, cmp, descending) ==
    SortFromRun(s, cmp, descending, RunEnd(s, cmp, descending, 3))

\* Array.prototype.sort as V8 runs it on an array of fewer than 64
\* elements: one run, extended by binary insertion
Sort(s, cmp) ==
    IF Len(s) < 2 THEN s ELSE SortRun(s, cmp, Compare(cmp, s[2], s[1]) < 0)

\* the pairs (a, b) the sort hands to its comparison function, in the
\* order of the arguments: those of CountAndMakeRun, up to the comparison
\* that ends the run
RunCompared(s, run) ==
    { <<s[i], s[i - 1]>> : i \in 2..(IF run < Len(s) THEN run + 1 ELSE Len(s)) }

\* those of one binary insertion
RECURSIVE InsertionCompared(_, _, _, _, _)
InsertionCompared(s, cmp, pivot, left, right) ==
    IF left >= right THEN {}
    ELSE LET mid == left + (right - left) \div 2 IN
         {<<pivot, s[mid]>>} \cup
           (IF Compare(cmp, pivot, s[mid]) < 0
            THEN InsertionCompared(s, cmp, pivot, left, mid)
            ELSE InsertionCompared(s, cmp, pivot, mid + 1, right))

RECURSIVE BinaryInsertionCompared(_, _, _)
BinaryInsertionCompared(s, cmp, start) ==
    IF start > Len(s) THEN {}
    ELSE InsertionCompared(s, cmp, s[start], 1, start) \cup
         BinaryInsertionCompared(
           MoveTo(s, start, InsertionPoint(s, cmp, s[start], 1, start)),
           cmp, start + 1)

ComparedFromRun(s, cmp, descending, run) ==
    RunCompared(s, run) \cup
    BinaryInsertionCompared(
      IF descending THEN Reverse(SubSeq(s, 1, run)) \o SubSeq(s, run + 1, Len(s))
      ELSE s,
      cmp, run + 1)

ComparedInRun(s, cmp, descending) ==
    ComparedFromRun(s, cmp, descending, RunEnd(s, cmp, descending, 3))

\* every pair Sort(s, cmp) compares
SortCompared(s, cmp) ==
    IF Len(s) < 2 THEN {}
    ELSE ComparedInRun(s, cmp, Compare(cmp, s[2], s[1]) < 0)

-----------------------------------------------------------------------------
(* Aggregator                                                              *)

\* array.slice(start, end)
slice(s, start, end) ==
    LET len  == Len(s)
        k    == IF start < 0 THEN (IF len + start > 0 THEN len + start ELSE 0)
                ELSE (IF start < len THEN start ELSE len)
        fin  == IF end < 0 THEN (IF len + end > 0 THEN len + end ELSE 0)
                ELSE (IF end < len THEN end ELSE len)
    IN  SubSeq(s, k + 1, fin)

RECURSIVE SumField(_, _)
SumField(s, field) ==
    IF Len(s) = 0 THEN 0 ELSE s[1][field] + SumField(Tail(s), field)

\* array.filter(pred).length for pred: item.stockLevel === level
CountLevel(s, level) == Cardinality({i \in 1..Len(s) : s[i].stockLevel = level})

\* the property name under which a category is counted
CategoryKey(item) == ToStr(item.equipmentCategory)

StockLevels == {"OUT_OF_STOCK", "LOW_STOCK", "MEDIUM_STOCK", "HIGH_STOCK"}

\* totalParts++ moved inside the test for critical parts
equipmentBreakdown_InsideIf(s) ==
    [key \in {CategoryKey(s[i]) : i \in 1..Len(s)} |->
       LET idx == {i \in 1..Len(s) : CategoryKey(s[i]) = key}
           RECURSIVE Total(_)
           Total(I) == IF I = {} THEN 0
                       ELSE LET i == CHOOSE i \in I : TRUE
                            IN  s[i].totalValue + Total(I \ {i})
       IN [ totalParts    |-> Cardinality({i \in idx :
                                 s[i].stockLevel \in {"OUT_OF_STOCK", "LOW_STOCK"}}),
            totalValue    |-> Total(idx),
            criticalParts |-> Cardinality({i \in idx :
                                 s[i].stockLevel \in {"OUT_OF_STOCK", "LOW_STOCK"}}) ]]

\* the forEach pass of the statistics handler
equipmentBreakdown(s) ==
    [key \in {CategoryKey(s[i]) : i \in 1..Len(s)} |->
       LET idx == {i \in 1..Len(s) : CategoryKey(s[i]) = key}
           RECURSIVE Total(_)
           Total(I) == IF I = {} THEN 0
                       ELSE LET i == CHOOSE i \in I : TRUE
                            IN  s[i].totalValue + Total(I \ {i})
       IN [ totalParts    |-> Cardinality(idx),
            totalValue    |-> Total(idx),
            criticalParts |-> Cardinality({i \in idx :
                                 s[i].stockLevel \in {"OUT_OF_STOCK", "LOW_STOCK"}}) ]]

stockLevelBreakdown(s) == [level \in StockLevels |-> CountLevel(s, level)]

\* the category UNKNOWN left out of the breakdown
StatsOn_SkipUnknown(sorted) ==
    /\ sparePartsData' = sorted
    /\ response' =
         [ op |-> "stats", status |-> 200,
           totalParts          |-> Len(sparePartsData),
           totalValue          |-> SumField(sparePartsData, "totalValue"),
           outOfStock          |-> CountLevel(sparePartsData, "OUT_OF_STOCK"),
           lowStock            |-> CountLevel(sparePartsData, "LOW_STOCK"),
           inProcess           |-> SumField(sparePartsData, "inProcess"),
           equipmentBreakdown  |->
             LET Named(item) == item.equipmentCategory # Str("UNKNOWN")
             IN  equipmentBreakdown(SelectSeq(sorted, Named)),
           stockLevelBreakdown |-> stockLevelBreakdown(sorted),
           recentActivity      |-> slice(sorted, 0, 10),
           lastSync            |-> lastSyncTime ]

\* the statistics handler, given the array as its sort leaves it
StatsOn(sorted) ==
    /\ sparePartsData' = sorted
    /\ response' =
         [ op |-> "stats", status |-> 200,
           totalParts          |-> Len(sparePartsData),
           totalValue          |-> SumField(sparePartsData, "totalValue"),
           outOfStock          |-> CountLevel(sparePartsData, "OUT_OF_STOCK"),
           lowStock            |-> CountLevel(sparePartsData, "LOW_STOCK"),
           inProcess           |-> SumField(sparePartsData, "inProcess"),
           equipmentBreakdown  |-> equipmentBreakdown(sorted),
           stockLevelBreakdown |-> stockLevelBreakdown(sorted),
           recentActivity      |-> slice(sorted, 0, 10),
           lastSync            |-> lastSyncTime ]

\* GET /api/dashboard/stats: sparePartsData.sort(...) sorts the array in place
Stats ==
    /\ StatsOn(Sort(sparePartsData, [by |-> "recent"]))
    /\ UNCHANGED <<file, lastSyncTime, clock, probe>>

-----------------------------------------------------------------------------
(* Query engine                                                            *)

\* array.filter(pred): the elements at the indices of keep, in order
RECURSIVE FilterFrom(_, _, _)
FilterFrom(s, keep, i) ==
    IF i > Len(s) THEN <<>>
    ELSE (IF i \in keep THEN <<s[i]>> ELSE <<>>) \o FilterFrom(s, keep, i + 1)

Filter(s, keep) == FilterFrom(s, keep, 1)

\* item.partName.toLowerCase().includes(searchTerm) ||
\* item.partCode.toLowerCase().includes(searchTerm):
\* "throw" when toLowerCase is called on a value that is not a string
SearchItem(item, searchTerm) ==
    IF item.partName.t # "str" THEN "throw"
    ELSE IF includes(toLowerCase(item.partName.s), searchTerm) THEN "match"
    ELSE IF item.partCode.t # "str" THEN "throw"
    ELSE IF includes(toLowerCase(item.partCode.s), searchTerm) THEN "match"
    ELSE "no"

\* Math.ceil(a / b) for b # 0
CeilDiv(a, b) == IF b > 0 THEN -((-a) \div b) ELSE -(a \div (-b))

\* p || d for a parsed number p
OrNumber(p, d) == IF p.nan \/ p.n = 0 THEN d ELSE p.n

\* the default page size
DefaultLimit == 50

ByEquipment(list, q) ==
    IF Truthy(q.equipment)
    THEN Filter(list, {i \in 1..Len(list) : list[i].equipmentCategory = q.equipment})
    ELSE list

\* find in place of filter: only the first record of the level is kept
ByStockLevel_Find(list, q) ==
    IF Truthy(q.stockLevel)
    THEN Filter(list, {i \in 1..Len(list) :
                         /\ Str(list[i].stockLevel) = q.stockLevel
                         /\ \A j \in 1..(i - 1) : Str(list[j].stockLevel) # q.stockLevel})
    ELSE list

ByStockLevel(list, q) ==
    IF Truthy(q.stockLevel)
    THEN Filter(list, {i \in 1..Len(list) : Str(list[i].stockLevel) = q.stockLevel})
    ELSE list

ByStatus(list, q) ==
    IF Truthy(q.status)
    THEN Filter(list, {i \in 1..Len(list) : list[i].status = q.status})
    ELSE list

\* whether the search filter throws on one of the records it visits
SearchThrows(list, q) ==
    /\ Truthy(q.search)
    /\ \E i \in 1..Len(list) : SearchItem(list[i], toLowerCase(q.search.s)) = "throw"

BySearch(list, q) ==
    IF Truthy(q.search)
    THEN Filter(list, {i \in 1..Len(list) :
                         SearchItem(list[i], toLowerCase(q.search.s)) = "match"})
    ELSE list

Sorted(list, q) ==
    IF Truthy(q.sortBy)
    THEN Sort(list, [by |-> "field", field |-> q.sortBy.s,
                     order |-> IF q.sortOrder = Str("desc") THEN -1 ELSE 1])
    ELSE list

\* total and totalPages taken from the page in place of the whole list
PageOf_PageTotal(list, q, page, limit, lastSync) ==
    [ op |-> "query", status |-> 200, req |-> q,
      data       |-> slice(list, (page - 1) * limit, page * limit),
      total      |-> Len(slice(list, (page - 1) * limit, page * limit)),
      page       |-> page,
      limit      |-> limit,
      totalPages |-> CeilDiv(Len(slice(list, (page - 1) * limit, page * limit)), limit),
      lastSync   |-> lastSync ]

\* the response body for the page of the filtered and sorted list
PageOf(list, q, page, limit, lastSync) ==
    [ op |-> "query", status |-> 200, req |-> q,
      data       |-> slice(list, (page - 1) * limit, page * limit),
      total      |-> Len(list),
      page       |-> page,
      limit      |-> limit,
      totalPages |-> CeilDiv(Len(list), limit),
      lastSync   |-> lastSync ]

\* the search, the sort and the pagination on the list the three equality
\* filters leave; an exception in the search is answered with a 500
SearchSortPage(list, q, lastSync) ==
    IF SearchThrows(list, q) THEN [op |-> "query", status |-> 500, req |-> q]
    ELSE PageOf(Sorted(BySearch(list, q), q), q,
                OrNumber(parseInt(q.page), 1),
                OrNumber(parseInt(q.limit), DefaultLimit), lastSync)

\* the response of GET /api/spare-parts to the query string q on the data
query(data, q, lastSync) ==
    SearchSortPage(ByStatus(ByStockLevel(ByEquipment(data, q), q), q), q, lastSync)

NoCriteria ==
    [ equipment |-> Undef, stockLevel |-> Undef, status |-> Undef,
      search |-> Undef, sortBy |-> Undef, sortOrder |-> Undef,
      page |-> Undef, limit |-> Undef ]

\* the query strings the server is sent
Queries ==
    { NoCriteria,
      [NoCriteria EXCEPT !.page = Str("2"), !.limit = Str("1")],
      [NoCriteria EXCEPT !.limit = Str("2")],
      [NoCriteria EXCEPT !.equipment = Str("PCT")],
      [NoCriteria EXCEPT !.search = Str("PUMP")],
      [NoCriteria EXCEPT !.sortBy = Str("partName"), !.sortOrder = Str("desc")],
      [NoCriteria EXCEPT !.sortBy = Str("partName")],
      [NoCriteria EXCEPT !.stockLevel = Str("LOW_STOCK"), !.status = Str("Active")] }

\* filteredData = sparePartsData in place of [...sparePartsData]: without a
\* filter the sort is that of the snapshot itself
Query_InPlace ==
    /\ \E q \in Queries :
         /\ response' = query(sparePartsData, q, lastSyncTime)
         /\ sparePartsData' =
              IF q = [NoCriteria EXCEPT !.sortBy = q.sortBy, !.sortOrder = q.sortOrder,
                                        !.page = q.page, !.limit = q.limit]
                   /\ response'.status = 200
              THEN Sorted(sparePartsData, q) ELSE sparePartsData
    /\ UNCHANGED <<file, lastSyncTime, clock, probe>>

\* GET /api/spare-parts
Query ==
    /\ \E q \in Queries : response' = query(sparePartsData, q, lastSyncTime)
    /\ UNCHANGED <<file, sparePartsData, lastSyncTime, clock, probe>>

\* the ids asked for
Ids == {"A1", "B2", "PCT-k1", "7"}

\* GET /api/spare-parts/:id
GetById ==
    /\ \E id \in Ids :
         LET found == {i \in 1..Len(sparePartsData) : sparePartsData[i].id = Str(id)} IN
         response' =
           IF found = {} THEN [op |-> "getById", status |-> 404, id |-> id]
           ELSE [op |-> "getById", status |-> 200, id |-> id,
                 part |-> sparePartsData[CHOOSE i \in found : \A j \in found : i <= j]]
    /\ UNCHANGED <<file, sparePartsData, lastSyncTime, clock, probe>>

\* [...new Set(array)]: the first occurrence of each value, in order
Distinct(s) == Filter(s, {i \in 1..Len(s) : \A j \in 1..(i - 1) : s[j] # s[i]})

\* .filter(category => category): UNKNOWN is kept
Known_Truthy(list) ==
    Filter(list, {i \in 1..Len(list) : Truthy(list[i])})

\* .filter(category => category && category !== 'UNKNOWN')
Known(list) ==
    Filter(list, {i \in 1..Len(list) : Truthy(list[i]) /\ list[i] # Str("UNKNOWN")})

\* GET /api/equipment-categories
Categories ==
    /\ response' =
         [ op |-> "categories", status |-> 200,
           categories |->
             Sort(Known(Distinct([i \in 1..Len(sparePartsData) |->
                                    sparePartsData[i].equipmentCategory])),
                  [by |-> "default"]) ]
    /\ UNCHANGED <<file, sparePartsData, lastSyncTime, clock, probe>>

Next ==
    \/ Tick
    \/ FileChange
    \/ Health
    \/ Query
    \/ Stats
    \/ GetById
    \/ Categories
    \/ RefreshData
    \/ SyncExcelNoFile
    \/ SyncExcel

Spec == Init /\ [][Next]_vars

-----------------------------------------------------------------------------
(* The client-side filter, dataUtils.filterSpareParts                      *)

\* filters.x && filters.x !== 'ALL'
Selected(value) == Truthy(value) /\ value # Str("ALL")

ClientByEquipment(list, filters) ==
    IF Selected(filters.equipment)
    THEN Filter(list, {i \in 1..Len(list) :
                         list[i].equipmentCategory = filters.equipment})
    ELSE list

ClientByStockLevel(list, filters) ==
    IF Selected(filters.stockLevel)
    THEN Filter(list, {i \in 1..Len(list) :
                         Str(list[i].stockLevel) = filters.stockLevel})
    ELSE list

ClientByStatus(list, filters) ==
    IF Selected(filters.status)
    THEN Filter(list, {i \in 1..Len(list) : list[i].status = filters.status})
    ELSE list

\* part.partName.toLowerCase().includes(searchTerm) ||
\* part.partCode.toLowerCase().includes(searchTerm) ||
\* part.supplier.toLowerCase().includes(searchTerm)
ClientSearchItem(part, searchTerm) ==
    IF part.partName.t # "str" THEN "throw"
    ELSE IF includes(toLowerCase(part.partName.s), searchTerm) THEN "match"
    ELSE IF part.partCode.t # "str" THEN "throw"
    ELSE IF includes(toLowerCase(part.partCode.s), searchTerm) THEN "match"
    ELSE IF part.supplier.t # "str" THEN "throw"
    ELSE IF includes(toLowerCase(part.supplier.s), searchTerm) THEN "match"
    ELSE "no"

ClientSearchThrows(list, filters) ==
    /\ Truthy(filters.search)
    /\ \E i \in 1..Len(list) :
         ClientSearchItem(list[i], toLowerCase(filters.search.s)) = "throw"

ClientBySearch(list, filters) ==
    IF Truthy(filters.search)
    THEN Filter(list, {i \in 1..Len(list) :
                         ClientSearchItem(list[i], toLowerCase(filters.search.s)) = "match"})
    ELSE list

ClientComparator(filters) ==
    [by |-> "client", field |-> filters.sortBy.s,
     order |-> IF filters.sortOrder = Str("desc") THEN -1 ELSE 1]

\* whether a call of the comparison function made by the sort throws
ClientSortThrows(list, filters) ==
    /\ Truthy(filters.sortBy)
    /\ \E pair \in SortCompared(list, ClientComparator(filters)) :
         LowerThrows(Field(pair[1], filters.sortBy.s), Field(pair[2], filters.sortBy.s))

ClientSorted(list, filters) ==
    IF Truthy(filters.sortBy) THEN Sort(list, ClientComparator(filters)) ELSE list

ClientSort(list, filters) ==
    IF ClientSortThrows(list, filters) THEN Thrown
    ELSE Returned(ClientSorted(list, filters))

ClientSearchSort(list, filters) ==
    IF ClientSearchThrows(list, filters) THEN Thrown
    ELSE ClientSort(ClientBySearch(list, filters), filters)

\* filterSpareParts(spareParts, filters): the array returned, or the
\* exception that escapes it
filterSpareParts(spareParts, filters) ==
    ClientSearchSort(
      ClientByStatus(ClientByStockLevel(ClientByEquipment(spareParts, filters),
                                        filters), filters),
      filters)

-----------------------------------------------------------------------------
(* The pure functions on their own: the input is drawn by the initial      *)
(* state, the step applies the function                                    *)

\* the server's variables while a function is examined on its own
Idle ==
    /\ file = "absent"
    /\ sparePartsData = <<>>
    /\ lastSyncTime = 1
    /\ clock = 1
    /\ response = [op |-> "none", status |-> 0]

\* the largest stock and the largest minimum the classifier is given
MaxStock == 17

MaxMin == 11

InitClassify ==
    /\ Idle
    /\ \E c \in -2..MaxStock, m \in -2..MaxMin :
         probe = [op |-> "classify", done |-> FALSE,
                  currentStock |-> c, minRequired |-> m, level |-> ""]

Classify ==
    /\ probe.op = "classify" /\ ~probe.done
    /\ probe' = [probe EXCEPT !.done = TRUE,
                   !.level = getStockLevel(probe.currentStock, probe.minRequired)]
    /\ UNCHANGED <<file, sparePartsData, lastSyncTime, clock, response>>

NextClassify == Classify

SpecClassify == InitClassify /\ [][NextClassify]_vars

Columns == DOMAIN EmptyRow

StringColumns ==
    {"Part_Code", "Equipment_Category", "Part_Name", "Supplier", "Last_Updated",
     "Status"}

NumericColumns == Columns \ StringColumns

\* cells that hold nothing usable: absent, empty, and a zero where text is
\* expected or text where a number is
BlankCells(column) ==
    IF column \in StringColumns THEN <<Undef, Str(""), Num(0)>>
    ELSE <<Undef, Str(""), Str("n/a")>>

\* the raw rows given to the normaliser: every choice of the blank columns
\* of a full row, with each kind of blank cell, and the rows of the sources
NormalizeRows ==
    { [c \in Columns |-> IF c \in blank THEN BlankCells(c)[kind] ELSE RowA1[c]] :
        blank \in SUBSET Columns, kind \in 1..3 }
    \cup {EmptyRow, RowNoCode, RowB2, RowDup, RowNeg, RowText}

InitNormalize ==
    /\ Idle
    /\ \E row \in NormalizeRows :
         probe = [op |-> "normalize", done |-> FALSE, row |-> row, now |-> 1,
                  token |-> "", record |-> <<>>, again |-> <<>>]

Normalize ==
    /\ probe.op = "normalize" /\ ~probe.done
    /\ \E token \in Tokens :
         probe' = [probe EXCEPT !.done = TRUE, !.token = token,
                     !.record = <<normalize(probe.row, token, probe.now)>>]
    /\ UNCHANGED <<file, sparePartsData, lastSyncTime, clock, response>>

\* a canonical record written back as a row of the sheet: each field in the
\* column it was read from, the numbers as numeric cells
AsRawRow(record) ==
    [ Part_Code          |-> record.partCode,
      Equipment_Category |-> record.equipmentCategory,
      Part_Name          |-> record.partName,
      Current_Stock      |-> Num(record.currentStock * 100),
      Minimum_Required   |-> Num(record.minRequired * 100),
      Maximum_Threshold  |-> Num(record.maxThreshold * 100),
      In_Process         |-> Num(record.inProcess * 100),
      Unit_Cost          |-> Num(record.unitCost),
      Supplier           |-> record.supplier,
      Last_Updated       |-> record.lastUpdated,
      Status             |-> record.status ]

\* processSparePartsData on the record just produced, at a later load
Renormalize ==
    /\ probe.op = "normalize" /\ probe.done /\ probe.again = <<>>
    /\ \E token \in Tokens, now \in 1..MaxClock :
         probe' = [probe EXCEPT
                     !.again = <<normalize(AsRawRow(probe.record[1]), token, now)>>]
    /\ UNCHANGED <<file, sparePartsData, lastSyncTime, clock, response>>

NextNormalize == Normalize \/ Renormalize

SpecNormalize == InitNormalize /\ [][NextNormalize]_vars

\* the longest sheet given to the loader on its own
MaxSheet == 3

SheetRowChoices == {RowA1, RowNoCode, RowDup, RowNeg, EmptyRow}

RECURSIVE SeqsUpTo(_, _)
SeqsUpTo(S, n) ==
    IF n = 0 THEN {<<>>}
    ELSE LET shorter == SeqsUpTo(S, n - 1)
         IN  shorter \cup {Append(q, x) : q \in {r \in shorter : Len(r) = n - 1}, x \in S}

InitLoad ==
    /\ Idle
    /\ \E rows \in SeqsUpTo(SheetRowChoices, MaxSheet) :
         probe = [op |-> "load", done |-> FALSE, rows |-> rows, now |-> 1,
                  tokens |-> <<>>, thrown |-> FALSE, data |-> <<>>]

\* readExcelData() on a workbook whose only sheet holds the rows
Load ==
    /\ probe.op = "load" /\ ~probe.done
    /\ \E tokens \in [1..MaxSheet -> Tokens] :
         LET r == readExcelData(
                    Workbook(<<Sheet("Spare_Parts_Inventory", probe.rows)>>),
                    tokens, probe.now)
         IN  probe' = [probe EXCEPT !.done = TRUE, !.tokens = tokens,
                         !.thrown = r.thrown, !.data = r.data]
    /\ UNCHANGED <<file, sparePartsData, lastSyncTime, clock, response>>

NextLoad == Load

SpecLoad == InitLoad /\ [][NextLoad]_vars

\* part names that differ in the case of their first letter
RowApple ==
    [ EmptyRow EXCEPT !.Part_Code = Str("C3"), !.Equipment_Category = Str("PCT"),
                      !.Part_Name = Str("apple"),
                      !.Current_Stock = Num(3000), !.Minimum_Required = Num(500),
                      !.Unit_Cost = Num(100), !.Supplier = Str("acme"),
                      !.Last_Updated = Str("2024-01-02") ]

RowBanana ==
    [ EmptyRow EXCEPT !.Part_Code = Str("D4"),
                      !.Equipment_Category = Str("COMMON_PARTS"),
                      !.Part_Name = Str("Banana"),
                      !.Current_Stock = Num(500), !.Minimum_Required = Num(1000),
                      !.Unit_Cost = Num(100), !.Supplier = Str("Acme"),
                      !.Last_Updated = Str("2024-01-02") ]

\* the longest snapshot the query engine is given on its own
MaxQueryRows == 3

QueryRows == {RowA1, RowB2, RowText, RowApple, RowBanana}

\* the snapshots queried: the load of every sheet of at most MaxQueryRows
\* of these rows
QuerySnapshots ==
    { processSparePartsData(rows, [i \in 1..MaxQueryRows |-> "k1"], 1) :
        rows \in SeqsUpTo(QueryRows, MaxQueryRows) }

FilterCriteria ==
    { [NoCriteria EXCEPT !.equipment = e, !.stockLevel = l, !.status = st,
                         !.search = se] :
        e  \in {Undef, Str(""), Str("PCT")},
        l  \in {Undef, Str("HIGH_STOCK"), Str("ALL")},
        st \in {Undef, Str("Active")},
        se \in {Undef, Str("PUMP"), Str("pump"), Str("ac")} }

SortCriteria ==
    { [NoCriteria EXCEPT !.sortBy = Str(f), !.sortOrder = o, !.equipment = e] :
        f \in {"partName", "partCode", "supplier", "currentStock",
               "equipmentCategory", "nosuch"},
        o \in {Undef, Str("asc"), Str("desc")},
        e \in {Undef, Str("PCT")} }

PageCriteria ==
    { [NoCriteria EXCEPT !.page = pg, !.limit = l, !.sortBy = f] :
        pg \in {Undef, Str("1"), Str("2"), Str("3"), Str("0"), Str("-1")},
        l  \in {Undef, Str("1"), Str("2"), Str("0"), Str("-1")},
        f  \in {Undef, Str("partName")} }

QueryCriteria == FilterCriteria \cup SortCriteria \cup PageCriteria

InitQuery ==
    /\ Idle
    /\ \E snapshot \in QuerySnapshots, q \in QueryCriteria :
         probe = [op |-> "query", done |-> FALSE, snapshot |-> snapshot, q |-> q,
                  engine |-> "", thrown |-> FALSE, list |-> <<>>, other |-> <<>>,
                  both |-> <<>>, total |-> 0, page |-> 0, limit |-> 0, totalPages |-> 0]

\* what the probe keeps of the response of GET /api/spare-parts
Answered(r) ==
    IF r.status = 500
    THEN [probe EXCEPT !.done = TRUE, !.engine = "server", !.thrown = TRUE]
    ELSE [probe EXCEPT !.done = TRUE, !.engine = "server", !.list = r.data,
                       !.total = r.total, !.page = r.page, !.limit = r.limit,
                       !.totalPages = r.totalPages]

\* GET /api/spare-parts with the criteria, on the snapshot
ServerQuery ==
    /\ probe.op = "query" /\ ~probe.done
    /\ probe' = Answered(query(probe.snapshot, probe.q, 1))
    /\ UNCHANGED <<file, sparePartsData, lastSyncTime, clock, response>>

\* what the probe keeps of a call of filterSpareParts
Filtered(r) ==
    [probe EXCEPT !.done = TRUE, !.engine = "client", !.thrown = r.thrown,
                  !.list = r.data, !.total = Len(r.data)]

\* filterSpareParts with the criteria, on the records of the snapshot
ClientFilter ==
    /\ probe.op = "query" /\ ~probe.done
    /\ probe' = Filtered(filterSpareParts(probe.snapshot, probe.q))
    /\ UNCHANGED <<file, sparePartsData, lastSyncTime, clock, response>>

\* the criteria of q that are equipment and stockLevel
EquipmentAndLevel(q) ==
    [NoCriteria EXCEPT !.equipment = q.equipment, !.stockLevel = q.stockLevel]

\* the equipment filter and the stock level filter of the query, applied
\* one after the other in both orders, and the query with the two criteria
FilterInTurn ==
    /\ probe.op = "query" /\ ~probe.done
    /\ probe' = [probe EXCEPT !.done = TRUE, !.engine = "turns",
                   !.list  = ByStockLevel(ByEquipment(probe.snapshot, probe.q), probe.q),
                   !.other = ByEquipment(ByStockLevel(probe.snapshot, probe.q), probe.q),
                   !.both  = query(probe.snapshot, EquipmentAndLevel(probe.q), 1).data]
    /\ UNCHANGED <<file, sparePartsData, lastSyncTime, clock, response>>

\* the records of some snapshot are visible and no request was made
InitRead ==
    /\ file = "absent"
    /\ lastSyncTime = 1
    /\ clock = 1
    /\ response = [op |-> "none", status |-> 0]
    /\ probe = [op |-> "none"]
    /\ sparePartsData \in QuerySnapshots

\* filterSpareParts(spareParts, filters) called on the array of the records
FilterCall ==
    /\ \E filters \in Queries :
         LET r == filterSpareParts(sparePartsData, filters)
         IN  response' = [op |-> "filter", status |-> IF r.thrown THEN 500 ELSE 200,
                          req |-> filters, data |-> r.data]
    /\ UNCHANGED <<file, sparePartsData, lastSyncTime, clock, probe>>

NextRead == Query \/ FilterCall

SpecRead == InitRead /\ [][NextRead]_vars

NextQuery ==
    \/ ServerQuery
    \/ ClientFilter
    \/ FilterInTurn

SpecQuery == InitQuery /\ [][NextQuery]_vars

-----------------------------------------------------------------------------
(* The inventory page (pages/Reports.jsx, InventoryManagement): its        *)
(* filters and pagination state, the requests of loadSpareParts that are   *)
(* in flight, and the list it shows.  A request is answered by the server  *)
(* when it is delivered, and requests are delivered in any order.          *)

\* the requests the page sends in one behaviour
MaxRequests == 3

InventoryRows == <<RowA1, RowB2, RowApple>>

\* a filter set to 'ALL' is deleted from the query parameters
Param(value) == IF value = "ALL" THEN Undef ELSE Str(value)

\* queryParams of loadSpareParts, as the server reads them from the URL
queryParams(filters, paginationModel) ==
    [ NoCriteria EXCEPT !.search     = Param(filters.search),
                        !.equipment  = Param(filters.equipment),
                        !.stockLevel = Param(filters.stockLevel),
                        !.status     = Param(filters.status),
                        !.page       = Str(NatToStr(paginationModel.page + 1)),
                        !.limit      = Str(NatToStr(paginationModel.pageSize)) ]

\* loadSpareParts up to its await: the request leaves with the filters and
\* the pagination of the render the function belongs to
loadSpareParts(page, filters, paginationModel) ==
    [ page EXCEPT !.sent = @ + 1,
                  !.inFlight = @ \cup {[n |-> page.sent + 1,
                                        q |-> queryParams(filters, paginationModel)]} ]

InitialFilters ==
    [search |-> "", equipment |-> "ALL", stockLevel |-> "ALL", status |-> "ALL"]

InitialPagination == [page |-> 0, pageSize |-> 25]

\* the page after its first render and its two mount effects: loadData waits
\* for the categories, and the first loadSpareParts request is in flight;
\* answered and shown record the requests answered and the one whose
\* response is the list shown
InitInventory ==
    /\ file = "scenario"
    /\ sparePartsData = processSparePartsData(InventoryRows, [i \in 1..3 |-> "k1"], 1)
    /\ lastSyncTime = 1
    /\ clock = 1
    /\ response = [op |-> "none", status |-> 0]
    /\ probe = loadSpareParts(
                 [op |-> "inventory", filters |-> InitialFilters,
                  paginationModel |-> InitialPagination,
                  categoriesPending |-> TRUE, inFlight |-> {}, sent |-> 0,
                  spareParts |-> <<>>, answered |-> {}, shown |-> 0],
                 InitialFilters, InitialPagination)

FilterValues == [search |-> {"", "pump"}, equipment |-> {"ALL", "PCT"}]

\* handleFilterChange(field, value), and the effect on [filters,
\* paginationModel] of the render that follows
handleFilterChange ==
    /\ probe.op = "inventory" /\ probe.sent < MaxRequests
    /\ \E field \in DOMAIN FilterValues :
         \E value \in FilterValues[field] \ {probe.filters[field]} :
           LET filters         == [probe.filters EXCEPT ![field] = value]
               paginationModel == [probe.paginationModel EXCEPT !.page = 0]
           IN  probe' = loadSpareParts(
                          [probe EXCEPT !.filters = filters,
                                        !.paginationModel = paginationModel],
                          filters, paginationModel)
    /\ UNCHANGED <<file, sparePartsData, lastSyncTime, clock, response>>

\* onPaginationModelChange={setPaginationModel}, and the effect that follows
onPaginationModelChange ==
    /\ probe.op = "inventory" /\ probe.sent < MaxRequests
    /\ \E page \in {0, 1} \ {probe.paginationModel.page} :
         LET paginationModel == [probe.paginationModel EXCEPT !.page = page]
         IN  probe' = loadSpareParts(
                        [probe EXCEPT !.paginationModel = paginationModel],
                        probe.filters, paginationModel)
    /\ UNCHANGED <<file, sparePartsData, lastSyncTime, clock, response>>

\* loadData after its await of the categories: it calls the loadSpareParts
\* of the first render, whose filters and pagination are the initial ones
loadData ==
    /\ probe.op = "inventory" /\ probe.sent < MaxRequests
    /\ probe.categoriesPending
    /\ probe' = loadSpareParts([probe EXCEPT !.categoriesPending = FALSE],
                               InitialFilters, InitialPagination)
    /\ UNCHANGED <<file, sparePartsData, lastSyncTime, clock, response>>

\* loadSpareParts after its await: setSpareParts(response.data || []), or
\* the toast of the catch when the server answered with an error
Delivered(page, request, answer) ==
    [ page EXCEPT !.inFlight   = @ \ {request},
                  !.answered   = @ \cup {request.n},
                  !.spareParts = IF answer.status = 200 THEN answer.data ELSE @,
                  !.shown      = IF answer.status = 200 THEN request.n ELSE @ ]

\* the server answers one of the requests in flight
Deliver ==
    /\ probe.op = "inventory"
    /\ \E request \in probe.inFlight :
         probe' = Delivered(probe, request,
                            query(sparePartsData, request.q, lastSyncTime))
    /\ UNCHANGED <<file, sparePartsData, lastSyncTime, clock, response>>

NextInventory ==
    \/ handleFilterChange
    \/ onPaginationModelChange
    \/ loadData
    \/ Deliver

SpecInventory == InitInventory /\ [][NextInventory]_vars

-----------------------------------------------------------------------------
(* Properties                                                              *)

Range(s) == {s[i] : i \in 1..Len(s)}

Occurrences(s, x) == Cardinality({i \in 1..Len(s) : s[i] = x})

\* the same records, each as many times, in any order
SameRecords(s, t) ==
    /\ Len(s) = Len(t)
    /\ \A x \in Range(s) \cup Range(t) : Occurrences(s, x) = Occurrences(t, x)

ReloadOps == {"start", "refresh", "sync"}

\* the last request was a load that read a source
Loaded == response.op \in ReloadOps /\ response.status # 400

\* C1: the statistics request has no side effect on the snapshot: the step
\* that answers it leaves the records of the snapshot in the same order.
C1_StatsLeavesSnapshot ==
    [][response'.op = "stats" => sparePartsData' = sparePartsData]_vars

\* C2: under every interleaving of reloads and reads the visible snapshot is
\* the complete result of one load (the records of one source, read at the
\* time of the last sync, in some order) and the response of every read is
\* made of the records of that snapshot alone.
C2_ReadsSeeOneSnapshot ==
    /\ \E f \in Files : \E tokens \in Draws[f] :
         SameRecords(sparePartsData, Loads[f, tokens, lastSyncTime].data)
    /\ response.op = "health" => response.dataCount = Len(sparePartsData)
    /\ (response.op = "query" /\ response.status = 200) =>
         /\ response.total <= Len(sparePartsData)
         /\ Range(response.data) \subseteq Range(sparePartsData)
    /\ response.op = "stats" =>
         /\ response.totalParts = Len(sparePartsData)
         /\ Range(response.recentActivity) \subseteq Range(sparePartsData)
    /\ (response.op = "getById" /\ response.status = 200) =>
         response.part \in Range(sparePartsData)
    /\ response.op = "categories" =>
         \A c \in Range(response.categories) :
           \E r \in Range(sparePartsData) : r.equipmentCategory = c

\* a read answered from a snapshot that a reload installed after start-up
C2_Witness ==
    /\ response.op = "query" /\ response.status = 200
    /\ Len(response.data) = 2
    /\ lastSyncTime > 1

\* C3: getStockLevel is total; it answers OUT_OF_STOCK for a stock of 0
\* whatever the minimum, and for a positive stock LOW_STOCK iff
\* stock <= min, MEDIUM_STOCK iff min < stock <= 1.5 min (15 of 10 is
\* MEDIUM, 16 of 10 is HIGH), HIGH_STOCK otherwise.
C3_Classification ==
    (probe.op = "classify" /\ probe.done) =>
      LET c == probe.currentStock
          m == probe.minRequired
      IN  /\ probe.level \in StockLevels
          /\ c = 0 => probe.level = "OUT_OF_STOCK"
          /\ c > 0 =>
               /\ probe.level = "LOW_STOCK" <=> c <= m
               /\ probe.level = "MEDIUM_STOCK" <=> (m < c /\ 2 * c <= 3 * m)
               /\ probe.level = "HIGH_STOCK" <=> (m < c /\ 2 * c > 3 * m)
               /\ probe.level # "OUT_OF_STOCK"
          /\ (c = 15 /\ m = 10) => probe.level = "MEDIUM_STOCK"
          /\ (c = 16 /\ m = 10) => probe.level = "HIGH_STOCK"

\* the stock exactly at one and a half times the minimum
C3_Witness ==
    /\ probe.op = "classify" /\ probe.done
    /\ probe.currentStock = 15 /\ probe.minRequired = 10
    /\ probe.level = "MEDIUM_STOCK"

\* C4: in every visible snapshot every record has the stock level of its own
\* currentStock and minRequired and a totalValue of currentStock x unitCost.
C4_DerivedFields ==
    \A r \in Range(sparePartsData) :
      /\ r.stockLevel = getStockLevel(r.currentStock, r.minRequired)
      /\ r.totalValue = r.currentStock * r.unitCost

\* after a read, a record whose stock and cost were parsed from text
C4_Witness ==
    /\ response.op = "stats"
    /\ \E r \in Range(sparePartsData) :
         r.currentStock = 7 /\ r.unitCost = 250 /\ r.totalValue = 1750

\* C5: a load returns as many records as the sheet has rows, and the i-th
\* record is the normalisation of the i-th row alone.
C5_RowForRow ==
    (probe.op = "load" /\ probe.done) =>
      /\ ~probe.thrown
      /\ Len(probe.data) = Len(probe.rows)
      /\ \A i \in 1..Len(probe.rows) :
           probe.data[i] = normalize(probe.rows[i], probe.tokens[i], probe.now)

\* a sheet of three different rows, one of them blank
C5_Witness ==
    /\ probe.op = "load" /\ probe.done
    /\ probe.rows = <<RowDup, EmptyRow, RowA1>>
    /\ Len(probe.data) = 3

\* C6: when the source is absent or cannot be read the load gives an empty
\* snapshot: the server starts with no records and a reload answers 200
\* with totalParts = 0.
C6_FailedLoadIsEmpty ==
    (Loaded /\ Content[response.source].kind \in {"absent", "corrupt"}) =>
      /\ response.status = 200
      /\ sparePartsData = <<>>
      /\ response.op # "start" => response.totalParts = 0

\* a reload request that found no readable source
C6_Witness ==
    /\ response.op \in {"refresh", "sync"} /\ response.status = 200
    /\ Content[response.source].kind \in {"absent", "corrupt"}
    /\ response.totalParts = 0

\* the snapshot is the normalisation of the rows, one for one
SnapshotOf(rows) ==
    /\ Len(sparePartsData) = Len(rows)
    /\ \A i \in 1..Len(rows) : \E token \in Tokens :
         sparePartsData[i] = normalize(rows[i], token, lastSyncTime)

\* C7: the rows loaded are those of the sheet named Spare_Parts_Inventory
\* wherever it is among the sheets, else those of the first sheet, and a
\* workbook without sheets gives an empty snapshot.
C7_SheetSelection ==
    (Loaded /\ response.status = 200 /\ Content[response.source].kind = "workbook") =>
      LET sheets == Content[response.source].sheets
          named  == {k \in 1..Len(sheets) : sheets[k].name = "Spare_Parts_Inventory"}
      IN  IF named # {} THEN \E k \in named : SnapshotOf(sheets[k].rows)
          ELSE IF Len(sheets) > 0 THEN SnapshotOf(sheets[1].rows)
          ELSE sparePartsData = <<>>

\* a reload of the workbook whose named sheet comes second
C7_Witness ==
    /\ response.op = "refresh" /\ response.status = 200
    /\ response.source = "second"
    /\ Len(sparePartsData) = 2

DefaultOf ==
    [ Equipment_Category |-> "UNKNOWN", Part_Name |-> "Unknown Part",
      Part_Code |-> "N/A", Supplier |-> "Unknown", Status |-> "Active" ]

FieldOf ==
    [ Part_Code |-> "partCode", Equipment_Category |-> "equipmentCategory",
      Part_Name |-> "partName", Current_Stock |-> "currentStock",
      Minimum_Required |-> "minRequired", Maximum_Threshold |-> "maxThreshold",
      In_Process |-> "inProcess", Unit_Cost |-> "unitCost",
      Supplier |-> "supplier", Last_Updated |-> "lastUpdated",
      Status |-> "status" ]

\* C8: a row without any field normalises to the documented defaults, and
\* each absent or empty string field and each absent or unparseable numeric
\* field takes its default whatever the other fields hold.
C8_Defaults ==
    (probe.op = "normalize" /\ probe.done) =>
      LET row == probe.row
          rec == probe.record[1]
      IN  /\ \A c \in DOMAIN DefaultOf :
               row[c] \in {Undef, Str("")} => rec[FieldOf[c]] = Str(DefaultOf[c])
          /\ \A c \in NumericColumns :
               row[c] \in {Undef, Str(""), Str("n/a")} => rec[FieldOf[c]] = 0
          /\ row = EmptyRow =>
               /\ rec.stockLevel = "OUT_OF_STOCK"
               /\ rec.totalValue = 0

\* the row without any field has been normalised
C8_Witness ==
    /\ probe.op = "normalize" /\ probe.done
    /\ probe.row = EmptyRow
    /\ probe.record[1].partCode = Str("N/A")

\* C9: in every record of every snapshot the four quantities and the unit
\* cost are >= 0.
C9_NonNegative ==
    \A r \in Range(sparePartsData) :
      /\ r.currentStock >= 0 /\ r.minRequired >= 0
      /\ r.maxThreshold >= 0 /\ r.inProcess >= 0
      /\ r.unitCost >= 0

\* C10: no two records of a snapshot have the same id.
C10_UniqueIds ==
    \A i, j \in 1..Len(sparePartsData) :
      sparePartsData[i].id = sparePartsData[j].id => i = j

\* C11: a row with a part code gets that code as its id and its partCode; a
\* row without one gets as id the equipmentCategory of its record, then
\* "-", then the random token, and the partCode N/A.
C11_IdGeneration ==
    (probe.op = "normalize" /\ probe.done) =>
      LET row == probe.row
          rec == probe.record[1]
      IN  IF Truthy(row.Part_Code)
          THEN rec.id = row.Part_Code /\ rec.partCode = row.Part_Code
          ELSE /\ rec.id = Str(ToStr(rec.equipmentCategory) \o "-" \o probe.token)
               /\ rec.partCode = Str("N/A")

\* a criterion that is supplied: present and not empty (the client writes
\* ALL for a criterion that is not chosen)
Supplied(engine, value) ==
    /\ value \notin {Undef, Str("")}
    /\ engine = "client" => value # Str("ALL")

\* the lower-cased term occurs in the lower-cased text of the field
Contains(value, term) == includes(toLowerCase(ToStr(value)), toLowerCase(term.s))

SearchedFields(engine) ==
    IF engine = "client" THEN {"partName", "partCode", "supplier"}
    ELSE {"partName", "partCode"}

\* the record satisfies every supplied criterion
Satisfies(r, q, engine) ==
    /\ Supplied(engine, q.equipment) => r.equipmentCategory = q.equipment
    /\ Supplied(engine, q.stockLevel) => Str(r.stockLevel) = q.stockLevel
    /\ Supplied(engine, q.status) => r.status = q.status
    /\ Supplied(engine, q.search) =>
         \E f \in SearchedFields(engine) : Contains(r[f], q.search)

Unsorted(q) == q.sortBy = Undef

WholeList(q) == q.page = Undef /\ q.limit = Undef

\* the records of the snapshot that satisfy the criteria, in snapshot order
Expected(snapshot, q, engine) ==
    LET Test(r) == Satisfies(r, q, engine) IN SelectSeq(snapshot, Test)

\* C12: for every snapshot and every combination of equipment, stockLevel,
\* status and search, the server query and the client-side filter return
\* exactly the records of the snapshot that satisfy every supplied criterion,
\* in snapshot order when there is no sortBy; an absent or empty criterion
\* restricts nothing, and without criteria total is the size of the snapshot.
C12_FilterIsConjunction ==
    (/\ probe.op = "query" /\ probe.done
     /\ probe.engine \in {"server", "client"}
     /\ Unsorted(probe.q) /\ WholeList(probe.q)) =>
      /\ ~probe.thrown
      /\ probe.list = Expected(probe.snapshot, probe.q, probe.engine)
      /\ probe.total = Len(probe.list)
      /\ probe.q = NoCriteria => probe.total = Len(probe.snapshot)

\* the same on the snapshots whose part names, part codes and suppliers are
\* all strings
AllText(snapshot) ==
    \A i \in 1..Len(snapshot) : \A f \in {"partName", "partCode", "supplier"} :
      snapshot[i][f].t = "str"

FilterIsConjunctionOnText ==
    (/\ probe.op = "query" /\ probe.done
     /\ probe.engine \in {"server", "client"}
     /\ Unsorted(probe.q) /\ WholeList(probe.q)
     /\ AllText(probe.snapshot)) =>
      /\ ~probe.thrown
      /\ probe.list = Expected(probe.snapshot, probe.q, probe.engine)
      /\ probe.total = Len(probe.list)

\* C13: the equipment filter followed by the stockLevel filter gives the same
\* records in the same order as the stockLevel filter followed by the
\* equipment filter, and both give the result of the one query with the two
\* criteria.
C13_FiltersCommute ==
    (probe.op = "query" /\ probe.done /\ probe.engine = "turns") =>
      /\ probe.list = probe.other
      /\ probe.list = probe.both

\* both criteria are given and each of them removes a record
C13_Witness ==
    /\ probe.op = "query" /\ probe.done /\ probe.engine = "turns"
    /\ probe.q.equipment = Str("PCT") /\ probe.q.stockLevel = Str("HIGH_STOCK")
    /\ Len(probe.snapshot) = 3 /\ Len(probe.both) = 1
    /\ \E i \in 1..3 : probe.snapshot[i].equipmentCategory # Str("PCT")
    /\ \E i \in 1..3 : /\ probe.snapshot[i].equipmentCategory = Str("PCT")
                       /\ probe.snapshot[i].stockLevel # "HIGH_STOCK"

SearchOnly(q) == Truthy(q.search) /\ q = [NoCriteria EXCEPT !.search = q.search]

\* C14: a record passes the search of the server query iff the lower-cased
\* term occurs in its lower-cased partName or partCode, and that of the
\* client-side filter iff it occurs in partName, partCode or supplier; the
\* case of the letters of the term and of the fields makes no difference.
C14_SearchIgnoresCase ==
    (/\ probe.op = "query" /\ probe.done
     /\ probe.engine \in {"server", "client"}
     /\ SearchOnly(probe.q)) =>
      /\ ~probe.thrown
      /\ \A r \in Range(probe.snapshot) :
           r \in Range(probe.list) <=>
             \E f \in SearchedFields(probe.engine) : Contains(r[f], probe.q.search)

\* the list the query paginates
FilteredAndSorted(snapshot, q) ==
    Sorted(BySearch(ByStatus(ByStockLevel(ByEquipment(snapshot, q), q), q), q), q)

Min(a, b) == IF a < b THEN a ELSE b

\* C15: for page >= 1 and limit >= 1 the page returned is the records at
\* positions (page-1)*limit+1 .. min(page*limit, total) of the filtered and
\* sorted list, total is the length of that list, totalPages is
\* ceil(total / limit), page defaults to 1 and limit to 50, and a page beyond
\* the last is empty with the same total and totalPages.
C15_Pagination ==
    (/\ probe.op = "query" /\ probe.done /\ probe.engine = "server"
     /\ ~probe.thrown /\ probe.page >= 1 /\ probe.limit >= 1) =>
      LET full == FilteredAndSorted(probe.snapshot, probe.q) IN
      /\ probe.q.page = Undef => probe.page = 1
      /\ probe.q.limit = Undef => probe.limit = 50
      /\ probe.total = Len(full)
      /\ probe.totalPages * probe.limit >= probe.total
      /\ (probe.totalPages - 1) * probe.limit < probe.total \/ probe.totalPages = 0
      /\ probe.list = [i \in 1..(Min(probe.page * probe.limit, probe.total)
                                   - Min((probe.page - 1) * probe.limit, probe.total)) |->
                         full[(probe.page - 1) * probe.limit + i]]
      /\ (probe.page - 1) * probe.limit >= probe.total => probe.list = <<>>

\* three records in pages of two: the second page holds the third record
C15_Witness ==
    /\ probe.op = "query" /\ probe.done /\ probe.engine = "server"
    /\ probe.q.sortBy = Str("partName")
    /\ probe.page = 2 /\ probe.limit = 2
    /\ probe.total = 3 /\ probe.totalPages = 2
    /\ Len(probe.list) = 1
    /\ probe.list[1] = FilteredAndSorted(probe.snapshot, probe.q)[3]
    /\ probe.list[1] # probe.snapshot[3]

\* the key a record is sorted by: the value of the field, which the client
\* lower-cases when it is a string
KeyOf(engine, r, field) ==
    IF engine = "client" /\ Field(r, field).t = "str"
    THEN Str(toLowerCase(Field(r, field).s))
    ELSE Field(r, field)

\* the list is in the order of the keys: no record comes before one whose
\* key is smaller (ascending) or larger (descending)
InOrder(engine, list, field, descending) ==
    \A i, j \in 1..Len(list) :
      i < j =>
        IF descending
        THEN ~Less(KeyOf(engine, list[i], field), KeyOf(engine, list[j], field))
        ELSE ~Less(KeyOf(engine, list[j], field), KeyOf(engine, list[i], field))

\* the records of one key come in the same order in both lists
SameOrderWithinKeys(engine, list, before, field) ==
    \A r \in Range(before) :
      LET SameKey(x) == KeyOf(engine, x, field) = KeyOf(engine, r, field)
      IN  SelectSeq(list, SameKey) = SelectSeq(before, SameKey)

SortOnly(q) == Truthy(q.sortBy) /\ ~Truthy(q.search) /\ WholeList(q)

\* C16: with a sortBy the filtered records come back in non-decreasing order
\* of the field, in non-increasing order when sortOrder is exactly desc; the
\* result is a permutation of the filtered records, and records of equal
\* keys keep the order they have in the snapshot.
C16_Sorting ==
    (/\ probe.op = "query" /\ probe.done
     /\ probe.engine \in {"server", "client"}
     /\ SortOnly(probe.q)) =>
      LET before == Expected(probe.snapshot, probe.q, probe.engine)
          field  == probe.q.sortBy.s
      IN  /\ ~probe.thrown
          /\ SameRecords(probe.list, before)
          /\ InOrder(probe.engine, probe.list, field, probe.q.sortOrder = Str("desc"))
          /\ SameOrderWithinKeys(probe.engine, probe.list, before, field)

\* the same when the keys of the records are all of one type
OneKeyType(list, field) ==
    \A i, j \in 1..Len(list) : Field(list[i], field).t = Field(list[j], field).t

SortingOnOneKeyType ==
    (/\ probe.op = "query" /\ probe.done
     /\ probe.engine \in {"server", "client"}
     /\ SortOnly(probe.q)
     /\ OneKeyType(probe.snapshot, probe.q.sortBy.s)) =>
      LET before == Expected(probe.snapshot, probe.q, probe.engine)
          field  == probe.q.sortBy.s
      IN  /\ ~probe.thrown
          /\ SameRecords(probe.list, before)
          /\ InOrder(probe.engine, probe.list, field, probe.q.sortOrder = Str("desc"))
          /\ SameOrderWithinKeys(probe.engine, probe.list, before, field)

TextKeys(list, field) == \A i \in 1..Len(list) : Field(list[i], field).t = "str"

\* C17: when the sort field holds strings both engines compare them without
\* regard to case: records whose keys differ only in case compare equal (and
\* so keep their snapshot order), and apple comes before Banana in ascending
\* order.
C17_SortIgnoresCase ==
    (/\ probe.op = "query" /\ probe.done
     /\ probe.engine \in {"server", "client"}
     /\ SortOnly(probe.q)
     /\ TextKeys(probe.snapshot, probe.q.sortBy.s)) =>
      LET before == Expected(probe.snapshot, probe.q, probe.engine)
          field  == probe.q.sortBy.s
      IN  /\ ~probe.thrown
          /\ InOrder("client", probe.list, field, probe.q.sortOrder = Str("desc"))
          /\ SameOrderWithinKeys("client", probe.list, before, field)

\* C18: a sort on a field the records do not have, or whose values are a
\* string on one record and a number on another, never raises in either
\* engine, and on a field the records do not have it leaves the filtered
\* records in their order.
C18_SortNeverRaises ==
    (/\ probe.op = "query" /\ probe.done
     /\ probe.engine \in {"server", "client"}
     /\ SortOnly(probe.q)) =>
      /\ ~probe.thrown
      /\ probe.q.sortBy = Str("nosuch") =>
           probe.list = Expected(probe.snapshot, probe.q, probe.engine)

\* the server alone
ServerSortNeverRaises ==
    probe.engine = "server" => C18_SortNeverRaises

\* the sum of the values f[k] for k in K
RECURSIVE SumOver(_, _)
SumOver(f, K) ==
    IF K = {} THEN 0
    ELSE LET k == CHOOSE k \in K : TRUE IN f[k] + SumOver(f, K \ {k})

\* C19: in every statistics response stockLevelBreakdown has exactly the four
\* stock levels as keys, its four values sum to totalParts, the totalParts of
\* the entries of equipmentBreakdown sum to totalParts, and outOfStock and
\* lowStock are the OUT_OF_STOCK and LOW_STOCK entries of stockLevelBreakdown.
C19_StatsSums ==
    response.op = "stats" =>
      /\ response.status = 200
      /\ response.totalParts = Len(sparePartsData)
      /\ DOMAIN response.stockLevelBreakdown =
           {"OUT_OF_STOCK", "LOW_STOCK", "MEDIUM_STOCK", "HIGH_STOCK"}
      /\ SumOver(response.stockLevelBreakdown, DOMAIN response.stockLevelBreakdown)
           = response.totalParts
      /\ SumOver([k \in DOMAIN response.equipmentBreakdown |->
                    response.equipmentBreakdown[k].totalParts],
                 DOMAIN response.equipmentBreakdown) = response.totalParts
      /\ response.outOfStock = response.stockLevelBreakdown["OUT_OF_STOCK"]
      /\ response.lowStock = response.stockLevelBreakdown["LOW_STOCK"]

\* statistics over three records of two categories, none of medium stock
C19_Witness ==
    /\ response.op = "stats" /\ response.totalParts = 3
    /\ response.stockLevelBreakdown["MEDIUM_STOCK"] = 0
    /\ response.stockLevelBreakdown["HIGH_STOCK"] = 1
    /\ Cardinality(DOMAIN response.equipmentBreakdown) = 2

\* the indices of the records of the category shown as key
OfCategory(key) ==
    {i \in 1..Len(sparePartsData) : ToStr(sparePartsData[i].equipmentCategory) = key}

Critical(i) == sparePartsData[i].stockLevel \in {"OUT_OF_STOCK", "LOW_STOCK"}

\* C20: equipmentBreakdown has one key for each equipmentCategory of the
\* snapshot, UNKNOWN included, and under it the number of records of the
\* category, the sum of their totalValue and the number of them that are out
\* of stock or low; totalValue and inProcess are the sums over all records.
C20_EquipmentBreakdown ==
    response.op = "stats" =>
      /\ DOMAIN response.equipmentBreakdown =
           {ToStr(sparePartsData[i].equipmentCategory) : i \in 1..Len(sparePartsData)}
      /\ \A key \in DOMAIN response.equipmentBreakdown :
           /\ response.equipmentBreakdown[key].totalParts = Cardinality(OfCategory(key))
           /\ response.equipmentBreakdown[key].totalValue =
                SumOver([i \in 1..Len(sparePartsData) |-> sparePartsData[i].totalValue],
                        OfCategory(key))
           /\ response.equipmentBreakdown[key].criticalParts =
                Cardinality({i \in OfCategory(key) : Critical(i)})
      /\ response.totalValue =
           SumOver([i \in 1..Len(sparePartsData) |-> sparePartsData[i].totalValue],
                   1..Len(sparePartsData))
      /\ response.inProcess =
           SumOver([i \in 1..Len(sparePartsData) |-> sparePartsData[i].inProcess],
                   1..Len(sparePartsData))

\* the statistics of the three-row scenario: totalValue 40
C20_Witness ==
    /\ response.op = "stats" /\ response.totalParts = 3
    /\ response.totalValue = 4000
    /\ DOMAIN response.equipmentBreakdown = {"PCT", "COMMON_PARTS"}
    /\ response.equipmentBreakdown["PCT"].totalParts = 2
    /\ response.equipmentBreakdown["PCT"].criticalParts = 2
    /\ response.equipmentBreakdown["COMMON_PARTS"].totalParts = 1
    /\ response.equipmentBreakdown["COMMON_PARTS"].criticalParts = 0

\* the date of x is strictly more recent than that of y; a lastUpdated that
\* is not a date counts as older than every date
MoreRecent(x, y) ==
    LET dx == DateValue(x.lastUpdated)
        dy == DateValue(y.lastUpdated)
    IN  /\ ~dx.nan
        /\ \/ dy.nan
           \/ dx.day > dy.day
           \/ dx.day = dy.day /\ dx.ms > dy.ms

\* C21: recentActivity holds min(10, totalParts) records of the snapshot in
\* descending order of lastUpdated, a lastUpdated that is not a date sorting
\* as oldest, and no record left out is more recent than one included.
C21_RecentActivity ==
    response.op = "stats" =>
      LET recent == response.recentActivity IN
      /\ Len(recent) = Min(10, response.totalParts)
      /\ \A x \in Range(recent) : Occurrences(recent, x) <= Occurrences(sparePartsData, x)
      /\ \A i, j \in 1..Len(recent) : i < j => ~MoreRecent(recent[j], recent[i])
      /\ \A x \in Range(sparePartsData) :
           Occurrences(recent, x) < Occurrences(sparePartsData, x) =>
             \A y \in Range(recent) : ~MoreRecent(x, y)

\* C22: the category listing holds each equipmentCategory of the snapshot
\* other than UNKNOWN exactly once, in ascending order, and nothing else.
C22_Categories ==
    response.op = "categories" =>
      LET listed == response.categories IN
      /\ response.status = 200
      /\ \A i, j \in 1..Len(listed) :
           i < j => StrLess(ToStr(listed[i]), ToStr(listed[j]))
      /\ Str("UNKNOWN") \notin Range(listed)
      /\ Range(listed) =
           {r.equipmentCategory : r \in Range(sparePartsData)} \ {Str("UNKNOWN")}

\* two categories listed in the order opposite to that of their records
C22_Witness ==
    /\ response.op = "categories"
    /\ response.categories = <<Str("COMMON_PARTS"), Str("PCT")>>
    /\ Len(sparePartsData) = 3
    /\ sparePartsData[1].equipmentCategory = Str("PCT")

\* the records whose id, as it is shown to the caller, is the one asked for
WithId(id) == {i \in 1..Len(sparePartsData) : ToStr(sparePartsData[i].id) = id}

\* C23: a lookup by id returns the first record of the snapshot with that id
\* whenever there is one, and otherwise a 404, never a 500 and never a record
\* of another id.
C23_GetById ==
    response.op = "getById" =>
      /\ response.status \in {200, 404}
      /\ WithId(response.id) # {} =>
           /\ response.status = 200
           /\ response.part =
                sparePartsData[CHOOSE i \in WithId(response.id) :
                                 \A j \in WithId(response.id) : i <= j]
      /\ WithId(response.id) = {} => response.status = 404
      /\ response.status = 200 => ToStr(response.part.id) = response.id

\* the snapshots the loader can return for a source read at an instant, one
\* for each draw of the tokens
LoadResults ==
    [ name \in Files, now \in 1..MaxClock |->
        {Loads[name, tokens, now].data : tokens \in Draws[name]} ] @@ <<>>

\* C24: a reload makes the result of the loader the visible snapshot: the
\* totalParts and syncTime it returns are the size and the sync time of the
\* snapshot, which is that of the source just read and nothing else, no step
\* other than a reload changes the records or the sync time, and health
\* reports that size and that sync time.
C24_ReloadSwapsSnapshot ==
    [][/\ (response'.op \in {"refresh", "sync"} /\ response'.status = 200) =>
            /\ response'.totalParts = Len(sparePartsData')
            /\ response'.syncTime = lastSyncTime'
            /\ sparePartsData' \in LoadResults[response'.source, lastSyncTime']
       /\ ~(response'.op \in {"refresh", "sync"} /\ response'.status = 200) =>
            /\ SameRecords(sparePartsData', sparePartsData)
            /\ lastSyncTime' = lastSyncTime
       /\ response'.op = "health" =>
            /\ response'.dataCount = Len(sparePartsData')
            /\ response'.lastSync = lastSyncTime'
      ]_vars

\* health after a reload that replaced three records by none
C24_Witness ==
    /\ response.op = "health"
    /\ response.dataCount = 0 /\ response.lastSync = 2
    /\ Content[file].kind = "corrupt"

\* C25: over every snapshot the loader can produce and every combination of
\* criteria, search included, the query and the statistics answer with a
\* normal result, never with an error response.
C25_QueriesStayAvailable ==
    response.op \in {"query", "stats"} => response.status = 200

CanonicalFields ==
    {"equipmentCategory", "partName", "partCode", "currentStock", "minRequired",
     "maxThreshold", "inProcess", "unitCost", "supplier", "lastUpdated", "status",
     "stockLevel", "totalValue"}

\* C26: normalising is idempotent: a canonical record written back as raw
\* columns and normalised again, at any later time, gives the same value in
\* every field but id, and the same id too when the row had a part code.
C26_NormalizeIdempotent ==
    (probe.op = "normalize" /\ probe.done /\ probe.again # <<>>) =>
      /\ DOMAIN probe.again[1] = CanonicalFields \cup {"id"}
      /\ \A f \in CanonicalFields : probe.again[1][f] = probe.record[1][f]
      /\ Truthy(probe.row.Part_Code) => probe.again[1].id = probe.record[1].id

\* a row without code nor date, normalised again on a later day: the date of
\* the first load is kept and the synthetic id is not
C26_Witness ==
    /\ probe.op = "normalize" /\ probe.done /\ probe.again # <<>>
    /\ ~Truthy(probe.row.Part_Code) /\ ~Truthy(probe.row.Last_Updated)
    /\ probe.row.Unit_Cost = Num(200) /\ probe.row.Current_Stock = Num(500)
    /\ probe.again[1].lastUpdated = Today(1)
    /\ probe.again[1].lastUpdated # Today(2)
    /\ probe.again[1].id = Str("N/A") /\ probe.again[1].id # probe.record[1].id
    /\ probe.again[1].totalValue = 1000

C28_PageWithinLimit ==
    (/\ probe.op = "query" /\ probe.done /\ probe.engine = "server"
     /\ ~probe.thrown) =>
      LET full  == FilteredAndSorted(probe.snapshot, probe.q)
          start == (probe.page - 1) * probe.limit
      IN  /\ probe.list = <<>> \/ Len(probe.list) <= probe.limit
          /\ probe.q.limit \in {Undef, Str("0")} => Len(probe.list) <= DefaultLimit
          /\ \/ probe.list = <<>>
             \/ /\ start >= 0
                /\ start + Len(probe.list) <= Len(full)
                /\ probe.list = SubSeq(full, start + 1, start + Len(probe.list))
          /\ probe.totalPages >= 0

\* C29: a sync-excel request without a file is answered 400 and changes
\* nothing: the snapshot and lastSyncTime stay what they were, the loader
\* is not run (the file on the disk, even if it changed since the last load,
\* is not read into the snapshot).
C29_SyncWithoutFileChangesNothing ==
    [][(response'.op = "sync" /\ response'.status = 400) =>
         /\ sparePartsData' = sparePartsData
         /\ lastSyncTime' = lastSyncTime
         /\ DOMAIN response' = {"op", "status"}
      ]_vars

\* the request is rejected while the file on the disk is no longer the one
\* the snapshot was loaded from, at a later time
C29_Witness ==
    /\ response.op = "sync" /\ response.status = 400
    /\ Len(sparePartsData) = 3
    /\ Content[file].kind = "corrupt"
    /\ clock > lastSyncTime

\* the largest of a non-empty set of numbers
Latest(S) == CHOOSE n \in S : \A m \in S : m <= n

\* C30: on the inventory page the list shown is never that of an older
\* request once a newer one was answered, and when no loadSpareParts request
\* is in flight any more the list shown is the server's answer to the
\* filters and the pagination the page is in.
C30_LatestResponseShown ==
    probe.op = "inventory" =>
      /\ probe.answered # {} => probe.shown = Latest(probe.answered)
      /\ (probe.inFlight = {} /\ ~probe.categoriesPending) =>
           probe.spareParts =
             query(sparePartsData,
                   queryParams(probe.filters, probe.paginationModel),
                   lastSyncTime).data

====
